---- MODULE Spec2Model ----
(***************************************************************************)
(* Model of the classifier container written by the notebook               *)
(* "01_Creating a Classifier Container.ipynb": inference_handler.py (the   *)
(* InferenceHandler, the module-level handle() and the __main__            *)
(* dispatcher) and training.py (start()).                                  *)
(***************************************************************************)
EXTENDS Integers, Sequences, FiniteSets, TLC

\* ------------------------------------------------------------------ bounds
MaxLen == 3          \* longest hyperparameter text
MaxFiles == 2        \* most files in an input directory
MaxRows == 2         \* most rows in a request payload
NumFeatures == 2     \* feature count the fitted model expects
MaxInvocations == 3  \* handle() invocations per worker process

\* ------------------------------------------------------- hyperparameter text
\* A text is a sequence of one-character strings.
Digits == {"0", "1"}
Alphabet == Digits \cup {".", "-", "e", "\n"}

RECURSIVE TextsOfLen(_)
TextsOfLen(n) ==
    IF n = 0 THEN {<<>>}
    ELSE {Append(t, c) : t \in TextsOfLen(n - 1), c \in Alphabet}

Texts == UNION {TextsOfLen(n) : n \in 0..MaxLen}

DigitVal(c) == IF c = "1" THEN 1 ELSE 0

\* \d+ is greedy: the position after the longest run of digits from i.
RECURSIVE SkipDigits(_, _)
SkipDigits(s, i) ==
    IF i <= Len(s) /\ s[i] \in Digits THEN SkipDigits(s, i + 1) ELSE i

\* Python's $ : the end of the string, or just before a newline that ends it.
AtDollar(s, i) == i = Len(s) + 1 \/ (i = Len(s) /\ s[i] = "\n")

\* Position after an optional "." digits+ group starting at j (j if absent).
OptionalFraction(s, j) ==
    IF j <= Len(s) /\ s[j] = "." /\ SkipDigits(s, j + 1) > j + 1
    THEN SkipDigits(s, j + 1)
    ELSE j

\* re.compile(r'^\d+(?:\.\d+)?$') : the fraction group made optional.
IsFloatOptionalGroup(s) ==
    LET j == SkipDigits(s, 1) IN j > 1 /\ AtDollar(s, OptionalFraction(s, j))

\* is_float = re.compile(r'^\d+(?:\.\d+)$') ; is_float.match(value) is not None
IsFloat(s) ==
    LET j == SkipDigits(s, 1)
        k == SkipDigits(s, j + 1)
    IN  /\ j > 1
        /\ j <= Len(s)
        /\ s[j] = "."
        /\ k > j + 1
        /\ AtDollar(s, k)

\* is_integer = re.compile(r'^\d+$') ; is_integer.match(value) is not None
IsInteger(s) ==
    LET j == SkipDigits(s, 1) IN j > 1 /\ AtDollar(s, j)

\* The decimal value of the digits s[i..j-1], accumulated left to right.
RECURSIVE DigitsValue(_, _, _, _)
DigitsValue(s, i, j, acc) ==
    IF i >= j THEN acc ELSE DigitsValue(s, i + 1, j, acc * 10 + DigitVal(s[i]))

\* int(value): surrounding whitespace is ignored, the digits give the number.
PyInt(s) == [kind |-> "int", num |-> DigitsValue(s, 1, SkipDigits(s, 1), 0), exp |-> 0]

\* A float num / 10^exp in lowest terms of ten (1.50 and 1.5 are one value).
RECURSIVE NormalizeFloat(_, _)
NormalizeFloat(num, exp) ==
    IF exp > 0 /\ num % 10 = 0 THEN NormalizeFloat(num \div 10, exp - 1)
    ELSE [kind |-> "float", num |-> num, exp |-> exp]

\* float(value): integer digits, a point, fraction digits.
PyFloat(s) ==
    LET j == SkipDigits(s, 1)
        k == SkipDigits(s, j + 1)
        whole == DigitsValue(s, 1, j, 0)
    IN  NormalizeFloat(DigitsValue(s, j + 1, k, whole), k - (j + 1))

TextValue(s) == [kind |-> "text", text |-> s]

\* The body of the coercion loop for one value.
CoerceValue(s) ==
    IF IsFloat(s) THEN PyFloat(s)
    ELSE IF IsInteger(s) THEN PyInt(s)
    ELSE TextValue(s)

\* A value of the parsed JSON object: a string, or something else (a number).
JsonString(t) == [isString |-> TRUE, text |-> t]
JsonNumber == [isString |-> FALSE, text |-> <<>>]

\* re.match raises TypeError on a value that is not a string.
IsStringValued(file) == \A k \in DOMAIN file : file[k].isString

\* for key, value in json.load(tc).items(): ... hyperparameters[key] = value
RECURSIVE CoerceItems(_, _, _)
CoerceItems(file, todo, acc) ==
    IF todo = {} THEN acc
    ELSE LET key == CHOOSE k \in todo : TRUE
         IN  CoerceItems(file, todo \ {key},
                         [k \in DOMAIN acc \cup {key} |->
                            IF k = key THEN CoerceValue(file[key].text) ELSE acc[k]])

EmptyDict == [k \in {} |-> 0]

CoerceHyperparameters(file) == CoerceItems(file, DOMAIN file, EmptyDict)

\* -------------------------------------------------------------- input sets
HpKeys == {"n_estimators", "max_depth"}

\* One text of each shape, used for the second key and for training runs.
SampleTexts == {<<"1", "0">>, <<"1", ".", "0">>, <<"-", "1">>, <<"1", "e", "1">>}

\* Hyperparameter files whose first key ranges over every text.
CoerceFiles ==
    {[k \in {"n_estimators"} |-> JsonString(t)] : t \in Texts}
    \cup {[k \in HpKeys |-> JsonString(IF k = "n_estimators" THEN t ELSE u)] :
            t \in Texts, u \in SampleTexts}

\* Hyperparameter files of the training runs.
TrainingFiles ==
    {EmptyDict}
    \cup {[k \in {"n_estimators"} |-> v] :
            v \in {JsonString(t) : t \in SampleTexts} \cup {JsonNumber}}
    \cup {[k \in HpKeys |-> JsonString(IF k = "n_estimators" THEN t ELSE <<"1">>)] :
            t \in SampleTexts}

\* Steps of the try body whose outcome depends on the environment.
FaultSteps == {"open_hp", "listdir", "read_csv", "set_params", "fit", "score", "dump"}

ArgvSet == {<<>>, <<"train">>, <<"serve">>, <<"predict">>, <<"train", "serve">>,
            <<"serve", "train">>}

VARIABLES
    argv,             \* sys.argv[1:]
    pc,               \* position of the container process
    calls,            \* routines the process has invoked, in order
    exitStatus,       \* -1 while running, else the process exit status
    stderr,           \* what the process wrote to the error stream
    hpFile,           \* parsed content of hyperparameters.json
    fault,            \* the environment-dependent step that raises, or "none"
    hyperparameters,  \* the dict built by start()
    trainFiles,       \* len(train_files), -1 before the listing
    validationFiles,  \* len(validation_files), -1 before the listing
    csvReads,         \* pd.read_csv calls made
    exc,              \* exception caught by start()'s except clause
    failureFile,      \* what was written to /opt/ml/output/failure
    modelDir,         \* state of /opt/ml/model/iris_model.pkl
    artifactPresent,  \* whether model_dir holds a loadable iris_model.pkl
    initialized,      \* _service._service._initialized
    initCalls,        \* calls of _service.initialize(context)
    modelLoads,       \* completed calls of default_model_fn
    loadedAt,         \* the invocation that loaded the model (0: none yet)
    invocations,      \* handle() invocations started so far
    tpc,              \* per thread: position inside handle()
    req,              \* per thread: the data handle() was called with
    shape,            \* per thread: shape of the array input_fn returned
    prediction,       \* per thread: the list predict_fn returned
    hcalls,           \* per thread: decoder/model/encoder calls, in order
    outcome           \* per thread: how the invocation ended

trainVars == <<hpFile, fault, hyperparameters, trainFiles, validationFiles,
               csvReads, exc, failureFile, modelDir>>
procVars == <<argv, pc, calls, exitStatus, stderr>>
globalServeVars == <<initialized, initCalls, modelLoads, loadedAt>>
threadVars == <<tpc, req, shape, prediction, hcalls, outcome>>
serveVars == <<artifactPresent, invocations, globalServeVars, threadVars>>
vars == <<procVars, trainVars, serveVars>>

\* ------------------------------------------------------------ the process
\* An exception nobody catches: the interpreter prints the traceback to the
\* error stream and the process ends with status 1.
Uncaught(e) ==
    /\ pc' = "exited"
    /\ exitStatus' = 1
    /\ stderr' = Append(stderr, [by |-> "interpreter", msg |-> e])

\* if len(sys.argv) < 2 or (not sys.argv[1] in ["serve", "train"]) is false
AnyFirstArgument(a) == Len(a) >= 1

ValidArgument(a) == Len(a) >= 1 /\ a[1] \in {"serve", "train"}

\* if __name__ == '__main__': the dispatcher
Dispatch ==
    /\ pc = "main"
    /\ IF ~ValidArgument(argv)
       THEN /\ Uncaught("Invalid argument")
            /\ UNCHANGED calls
       ELSE IF argv[1] = "train"
       THEN /\ pc' = "start"
            /\ calls' = Append(calls, "training.start")
            /\ UNCHANGED <<exitStatus, stderr>>
       ELSE /\ pc' = "serving"
            /\ calls' = Append(calls, "start_model_server")
            /\ UNCHANGED <<exitStatus, stderr>>
    /\ UNCHANGED <<argv, trainVars, serveVars>>

\* training.start() returned to the dispatcher; the script ends.
TrainingReturn ==
    /\ pc = "returned"
    /\ pc' = "exited"
    /\ exitStatus' = 0
    /\ UNCHANGED <<argv, calls, stderr, trainVars>>
    /\ UNCHANGED serveVars

\* ------------------------------------------------------- training.start()
\* The try body that returns after the score, without the joblib.dump line.
StepAfterNoDump(step) ==
    CASE step = "read_hp" -> "listdir"
      [] step = "listdir" -> "check_files"
      [] step = "check_files" -> "read_csv"
      [] step = "read_csv" -> "set_params"
      [] step = "set_params" -> "fit"
      [] step = "fit" -> "score"
      [] OTHER -> "returned"

\* The try body with the joblib.dump line placed before the score line.
StepAfterDumpBeforeScore(step) ==
    CASE step = "read_hp" -> "listdir"
      [] step = "listdir" -> "check_files"
      [] step = "check_files" -> "read_csv"
      [] step = "read_csv" -> "set_params"
      [] step = "set_params" -> "fit"
      [] step = "fit" -> "dump"
      [] step = "dump" -> "score"
      [] OTHER -> "returned"

\* The statement that follows a statement of the try body that did not raise.
StepAfter(step) ==
    CASE step = "read_hp" -> "listdir"
      [] step = "listdir" -> "check_files"
      [] step = "check_files" -> "read_csv"
      [] step = "read_csv" -> "set_params"
      [] step = "set_params" -> "fit"
      [] step = "fit" -> "score"
      [] step = "score" -> "dump"
      [] OTHER -> "returned"

\* An exception raised inside the try body reaches "except Exception as e".
Raise(e) == pc' = "except" /\ exc' = e

\* start() is entered: the job's inputs are whatever the platform mounted.
TrainingStart ==
    /\ pc = "start"
    /\ pc' = "read_hp"
    /\ hpFile' \in TrainingFiles
    /\ fault' \in FaultSteps \cup {"none"}
    /\ UNCHANGED <<argv, calls, exitStatus, stderr, hyperparameters, trainFiles,
                   validationFiles, csvReads, exc, failureFile, modelDir>>
    /\ UNCHANGED serveVars

\* with open(param_path, 'r') as tc: the coercion loop
ReadHyperparameters ==
    /\ pc = "read_hp"
    /\ IF fault = "open_hp"
       THEN Raise("FileNotFoundError") /\ UNCHANGED hyperparameters
       ELSE IF ~IsStringValued(hpFile)
       THEN Raise("TypeError") /\ UNCHANGED hyperparameters
       ELSE /\ hyperparameters' = CoerceHyperparameters(hpFile)
            /\ pc' = StepAfter(pc)
            /\ UNCHANGED exc
    /\ UNCHANGED <<argv, calls, exitStatus, stderr, hpFile, fault, trainFiles,
                   validationFiles, csvReads, failureFile, modelDir>>
    /\ UNCHANGED serveVars

\* train_files = [... os.listdir(training_path)] ; validation_files likewise
ListFiles ==
    /\ pc = "listdir"
    /\ IF fault = "listdir"
       THEN Raise("FileNotFoundError") /\ UNCHANGED <<trainFiles, validationFiles>>
       ELSE /\ trainFiles' \in 0..MaxFiles
            /\ validationFiles' \in 0..MaxFiles
            /\ pc' = StepAfter(pc)
            /\ UNCHANGED exc
    /\ UNCHANGED <<argv, calls, exitStatus, stderr, hpFile, fault, hyperparameters,
                   csvReads, failureFile, modelDir>>
    /\ UNCHANGED serveVars

\* The check with 'and' for 'or': only two empty directories are refused.
BothEmpty(t, v) == t = 0 /\ v = 0

\* if len(train_files) == 0 or len(validation_files) == 0
NoFiles(t, v) == t = 0 \/ v = 0

CheckFiles ==
    /\ pc = "check_files"
    /\ IF NoFiles(trainFiles, validationFiles)
       THEN Raise("ValueError: There are no files")
       ELSE pc' = StepAfter(pc) /\ UNCHANGED exc
    /\ UNCHANGED <<argv, calls, exitStatus, stderr, hpFile, fault, hyperparameters,
                   trainFiles, validationFiles, csvReads, failureFile, modelDir>>
    /\ UNCHANGED serveVars

\* raw_data = [pd.read_csv(file, ...) for file in train_files] ; pd.concat ;
\* the same for validation_files ; the iloc slices
ReadCsv ==
    /\ pc = "read_csv"
    /\ calls' = Append(calls, "read_csv")
    /\ IF fault = "read_csv"
       THEN /\ csvReads' \in 1..(trainFiles + validationFiles)
            /\ Raise("ParserError")
       ELSE /\ csvReads' = trainFiles + validationFiles
            /\ pc' = StepAfter(pc)
            /\ UNCHANGED exc
    /\ UNCHANGED <<argv, exitStatus, stderr, hpFile, fault, hyperparameters,
                   trainFiles, validationFiles, failureFile, modelDir>>
    /\ UNCHANGED serveVars

\* hyperparameters['verbose'] = 1
WithVerbose(h) ==
    [k \in DOMAIN h \cup {"verbose"} |->
        IF k = "verbose" THEN [kind |-> "int", num |-> 1, exp |-> 0] ELSE h[k]]

\* model = RandomForestClassifier() ; model.set_params(**hyperparameters)
SetParams ==
    /\ pc = "set_params"
    /\ calls' = Append(calls, "set_params")
    /\ hyperparameters' = WithVerbose(hyperparameters)
    /\ IF fault = "set_params"
       THEN Raise("ValueError: Invalid parameter")
       ELSE pc' = StepAfter(pc) /\ UNCHANGED exc
    /\ UNCHANGED <<argv, exitStatus, stderr, hpFile, fault, trainFiles,
                   validationFiles, csvReads, failureFile, modelDir>>
    /\ UNCHANGED serveVars

\* model.fit(X_train, Y_train)
Fit ==
    /\ pc = "fit"
    /\ calls' = Append(calls, "fit")
    /\ IF fault = "fit"
       THEN Raise("ValueError: fit")
       ELSE pc' = StepAfter(pc) /\ UNCHANGED exc
    /\ UNCHANGED <<argv, exitStatus, stderr, hpFile, fault, hyperparameters,
                   trainFiles, validationFiles, csvReads, failureFile, modelDir>>
    /\ UNCHANGED serveVars

\* print("Score: {}".format(model.score(X_validation, Y_validation)))
Score ==
    /\ pc = "score"
    /\ calls' = Append(calls, "score")
    /\ IF fault = "score"
       THEN Raise("ValueError: score")
       ELSE pc' = StepAfter(pc) /\ UNCHANGED exc
    /\ UNCHANGED <<argv, exitStatus, stderr, hpFile, fault, hyperparameters,
                   trainFiles, validationFiles, csvReads, failureFile, modelDir>>
    /\ UNCHANGED serveVars

\* joblib.dump(model, open(os.path.join(model_path, 'iris_model.pkl'), 'wb'))
\* open() may fail (nothing written) or dump may fail (a truncated file).
Dump ==
    /\ pc = "dump"
    /\ calls' = Append(calls, "dump")
    /\ IF fault = "dump"
       THEN /\ modelDir' \in {modelDir, "partial"}
            /\ Raise("OSError")
       ELSE /\ modelDir' = "model"
            /\ pc' = StepAfter(pc)
            /\ UNCHANGED exc
    /\ UNCHANGED <<argv, exitStatus, stderr, hpFile, fault, hyperparameters,
                   trainFiles, validationFiles, csvReads, failureFile>>
    /\ UNCHANGED serveVars

\* Names bound at module level of training.py by its import statements.
TrainingImports == {"os", "pd", "re", "joblib", "json", "RandomForestClassifier"}

\* 'Exception during training: ' + str(e) + '\n' + trc
Report(e) == [by |-> "training", msg |-> e]

\* except Exception as e: trc = traceback.format_exc() ; write the failure
\* file ; print(..., file=sys.stderr) ; sys.exit(255). A name that is not
\* bound raises NameError inside the handler, which nothing catches.
ExceptHandler ==
    /\ pc = "except"
    /\ IF "traceback" \notin TrainingImports
       THEN /\ Uncaught("NameError: name 'traceback' is not defined")
            /\ UNCHANGED failureFile
       ELSE /\ failureFile' = Append(failureFile, Report(exc))
            /\ IF "sys" \notin TrainingImports
               THEN Uncaught("NameError: name 'sys' is not defined")
               ELSE /\ stderr' = Append(stderr, Report(exc))
                    /\ pc' = "exited"
                    /\ exitStatus' = 255
    /\ UNCHANGED <<argv, calls, hpFile, fault, hyperparameters, trainFiles,
                   validationFiles, csvReads, exc, modelDir>>
    /\ UNCHANGED serveVars

\* ------------------------------------------------- inference_handler.py
Threads == {"t1", "t2"}

ContentTypes == {"text/csv", "application/json"}
Labels == {0, 1, 2}
MaxCols == NumFeatures + 1

\* The request of one invocation: the declared types and the CSV body, a
\* rows x cols table, or a table whose rows differ in length (ragged).
Payloads ==
    {[rows |-> 0, cols |-> 1, ragged |-> FALSE]}
    \cup {[rows |-> r, cols |-> c, ragged |-> FALSE] : r \in 1..MaxRows, c \in 1..MaxCols}
    \cup {[rows |-> 2, cols |-> 1, ragged |-> TRUE]}

NoData == [isNone |-> TRUE, contentType |-> "", accept |-> "",
           payload |-> [rows |-> 0, cols |-> 1, ragged |-> FALSE]]

Requests ==
    {[isNone |-> FALSE, contentType |-> ct, accept |-> ac, payload |-> p] :
        ct \in ContentTypes, ac \in ContentTypes, p \in Payloads}

NoOutcome == [kind |-> "none", err |-> "", body |-> <<>>]
ReturnedNone == [kind |-> "returned_none", err |-> "", body |-> <<>>]
Error(e) == [kind |-> "error", err |-> e, body |-> <<>>]
Response(b) == [kind |-> "response", err |-> "", body |-> b]

\* decoder.decode(input_data, 'text/csv'): numpy's genfromtxt squeezes the
\* table: no row gives (0,), one cell gives (), one row or one column gives
\* a vector, anything else a matrix.
DecodedShape(p) ==
    IF p.rows = 0 THEN <<0>>
    ELSE IF p.rows = 1 /\ p.cols = 1 THEN <<>>
    ELSE IF p.rows = 1 THEN <<p.cols>>
    ELSE IF p.cols = 1 THEN <<p.rows>>
    ELSE <<p.rows, p.cols>>

RECURSIVE Size(_)
Size(sh) == IF sh = <<>> THEN 1 ELSE Head(sh) * Size(Tail(sh))

\* The decoded array handed on as it is, without .reshape(1, -1).
NoReshape(sh) == sh

\* .reshape(1, -1)
Reshape(sh) == <<1, Size(sh)>>

\* if content_type != 'text/csv' is false, for every content type
AnyContentType(ct) == TRUE

ContentTypeAccepted(ct) == ct = "text/csv"

\* if accept != 'text/csv' is false, for every accept type
AnyAccept(ac) == TRUE

AcceptAccepted(ac) == ac = "text/csv"

\* model.predict(payload): a 2-D array with the fitted feature count.
Predictable(sh) == Len(sh) = 2 /\ sh[2] = NumFeatures

\* encoder.encode(prediction, 'text/csv'): one CSV line per element.
EncodeCsv(pred) == [i \in 1..Len(pred) |-> <<pred[i]>>]

\* "if not _service._service._initialized" taken as always true
AlwaysInitialize(flag) == TRUE

\* "if not _service._service._initialized" taken as always false
NeverInitialize(flag) == FALSE

\* if not _service._service._initialized:
NotInitialized(flag) == ~flag

Finish(t, o) ==
    /\ tpc' = [tpc EXCEPT ![t] = "done"]
    /\ outcome' = [outcome EXCEPT ![t] = o]

Goto(t, where) == tpc' = [tpc EXCEPT ![t] = where] /\ UNCHANGED outcome

\* The model server calls handle(data, context). With exclusive, only while
\* no other invocation is in progress.
HandleStart(t, exclusive) ==
    /\ pc = "serving"
    /\ tpc[t] = "idle"
    /\ exclusive => \A u \in Threads : tpc[u] = "idle"
    /\ invocations < MaxInvocations
    /\ invocations' = invocations + 1
    /\ \E d \in Requests \cup {NoData} : req' = [req EXCEPT ![t] = d]
    /\ Goto(t, "check")
    /\ UNCHANGED <<procVars, trainVars, artifactPresent, globalServeVars,
                   shape, prediction, hcalls>>

\* if not _service._service._initialized: _service.initialize(context)
CheckInitialized(t) ==
    /\ tpc[t] = "check"
    /\ IF NotInitialized(initialized)
       THEN /\ initCalls' = initCalls + 1
            /\ Goto(t, "initialize")
       ELSE /\ Goto(t, "data_check")
            /\ UNCHANGED initCalls
    /\ UNCHANGED <<procVars, trainVars, artifactPresent, invocations, initialized,
                   modelLoads, loadedAt, req, shape, prediction, hcalls>>

\* _service.initialize(context): the toolkit's validate_and_initialize tests
\* the flag again, without a lock, before it loads the model.
Initialize(t) ==
    /\ tpc[t] = "initialize"
    /\ Goto(t, IF initialized THEN "data_check" ELSE "model_fn")
    /\ UNCHANGED <<procVars, trainVars, artifactPresent, invocations,
                   globalServeVars, req, shape, prediction, hcalls>>

\* default_model_fn: joblib.load(open(os.path.join(model_dir, 'iris_model.pkl')))
ModelFn(t) ==
    /\ tpc[t] = "model_fn"
    /\ IF artifactPresent
       THEN /\ modelLoads' = modelLoads + 1
            /\ loadedAt' = invocations
            /\ Goto(t, "set_initialized")
       ELSE /\ Finish(t, Error("FileNotFoundError"))
            /\ UNCHANGED <<modelLoads, loadedAt>>
    /\ UNCHANGED <<procVars, trainVars, artifactPresent, invocations, initialized,
                   initCalls, req, shape, prediction, hcalls>>

\* the toolkit keeps the loaded model and sets _initialized = True
SetInitialized(t) ==
    /\ tpc[t] = "set_initialized"
    /\ initialized' = TRUE
    /\ Goto(t, "data_check")
    /\ UNCHANGED <<procVars, trainVars, artifactPresent, invocations, initCalls,
                   modelLoads, loadedAt, req, shape, prediction, hcalls>>

\* if data is None: return None
DataCheck(t) ==
    /\ tpc[t] = "data_check"
    /\ IF req[t].isNone THEN Finish(t, ReturnedNone) ELSE Goto(t, "input_fn")
    /\ UNCHANGED <<procVars, trainVars, artifactPresent, invocations,
                   globalServeVars, req, shape, prediction, hcalls>>

\* return _service.handle(data, context): the transform starts with
\* default_input_fn(input_data, content_type)
InputFn(t) ==
    /\ tpc[t] = "input_fn"
    /\ IF ~ContentTypeAccepted(req[t].contentType)
       THEN /\ Finish(t, Error("Invalid content-type"))
            /\ UNCHANGED <<hcalls, shape>>
       ELSE /\ hcalls' = [hcalls EXCEPT ![t] = Append(@, "decode")]
            /\ IF req[t].payload.ragged
               THEN /\ Finish(t, Error("ValueError: decode"))
                    /\ UNCHANGED shape
               ELSE /\ shape' = [shape EXCEPT
                                   ![t] = Reshape(DecodedShape(req[t].payload))]
                    /\ Goto(t, "predict_fn")
    /\ UNCHANGED <<procVars, trainVars, artifactPresent, invocations,
                   globalServeVars, req, prediction>>

\* default_predict_fn(payload, model): model.predict(payload).tolist()
PredictFn(t) ==
    /\ tpc[t] = "predict_fn"
    /\ hcalls' = [hcalls EXCEPT ![t] = Append(@, "predict")]
    /\ IF Predictable(shape[t])
       THEN /\ \E l \in [1..shape[t][1] -> Labels] :
                   prediction' = [prediction EXCEPT ![t] = l]
            /\ Goto(t, "output_fn")
       ELSE /\ Finish(t, Error("ValueError: predict"))
            /\ UNCHANGED prediction
    /\ UNCHANGED <<procVars, trainVars, artifactPresent, invocations,
                   globalServeVars, req, shape>>

\* default_output_fn(prediction, accept)
OutputFn(t) ==
    /\ tpc[t] = "output_fn"
    /\ IF ~AcceptAccepted(req[t].accept)
       THEN /\ Finish(t, Error("Invalid accept"))
            /\ UNCHANGED hcalls
       ELSE /\ hcalls' = [hcalls EXCEPT ![t] = Append(@, "encode")]
            /\ Finish(t, Response(EncodeCsv(prediction[t])))
    /\ UNCHANGED <<procVars, trainVars, artifactPresent, invocations,
                   globalServeVars, req, shape, prediction>>

\* handle() has returned or raised; the thread is free for the next request.
HandleEnd(t) ==
    /\ tpc[t] = "done"
    /\ tpc' = [tpc EXCEPT ![t] = "idle"]
    /\ req' = [req EXCEPT ![t] = NoData]
    /\ shape' = [shape EXCEPT ![t] = <<>>]
    /\ prediction' = [prediction EXCEPT ![t] = <<>>]
    /\ hcalls' = [hcalls EXCEPT ![t] = <<>>]
    /\ outcome' = [outcome EXCEPT ![t] = NoOutcome]
    /\ UNCHANGED <<procVars, trainVars, artifactPresent, invocations,
                   globalServeVars>>

HandleSteps(t) ==
    \/ CheckInitialized(t)
    \/ Initialize(t)
    \/ ModelFn(t)
    \/ SetInitialized(t)
    \/ DataCheck(t)
    \/ InputFn(t)
    \/ PredictFn(t)
    \/ OutputFn(t)
    \/ HandleEnd(t)

\* ------------------------------------------------------------ specification
Init ==
    /\ argv \in ArgvSet
    /\ pc = "main"
    /\ calls = <<>>
    /\ exitStatus = -1
    /\ stderr = <<>>
    /\ hpFile = EmptyDict
    /\ fault = "none"
    /\ hyperparameters = EmptyDict
    /\ trainFiles = -1
    /\ validationFiles = -1
    /\ csvReads = 0
    /\ exc = "none"
    /\ failureFile = <<>>
    /\ modelDir = "empty"
    /\ artifactPresent \in BOOLEAN
    /\ initialized = FALSE
    /\ initCalls = 0
    /\ modelLoads = 0
    /\ loadedAt = 0
    /\ invocations = 0
    /\ tpc = [t \in Threads |-> "idle"]
    /\ req = [t \in Threads |-> NoData]
    /\ shape = [t \in Threads |-> <<>>]
    /\ prediction = [t \in Threads |-> <<>>]
    /\ hcalls = [t \in Threads |-> <<>>]
    /\ outcome = [t \in Threads |-> NoOutcome]

TrainNext ==
    \/ TrainingStart
    \/ ReadHyperparameters
    \/ ListFiles
    \/ CheckFiles
    \/ ReadCsv
    \/ SetParams
    \/ Fit
    \/ Score
    \/ Dump
    \/ ExceptHandler
    \/ TrainingReturn

\* The model server hands a worker one request at a time.
ServeNext == \E t \in Threads : HandleStart(t, TRUE) \/ HandleSteps(t)

Next == Dispatch \/ TrainNext \/ ServeNext

Spec == Init /\ [][Next]_vars

\* The server calls handle() from several threads of one process.
ConcurrentNext == \E t \in Threads : HandleStart(t, FALSE) \/ HandleSteps(t)

NextConc == Dispatch \/ ConcurrentNext

SpecConc == Init /\ [][NextConc]_vars

\* Hyperparameter coercion alone: start() at the point where it opens the
\* hyperparameter file, for every file of CoerceFiles.
InitCoerce ==
    /\ argv = <<"train">>
    /\ pc = "read_hp"
    /\ calls = <<"training.start">>
    /\ exitStatus = -1
    /\ stderr = <<>>
    /\ hpFile \in CoerceFiles
    /\ fault = "none"
    /\ hyperparameters = EmptyDict
    /\ trainFiles = -1
    /\ validationFiles = -1
    /\ csvReads = 0
    /\ exc = "none"
    /\ failureFile = <<>>
    /\ modelDir = "empty"
    /\ artifactPresent = FALSE
    /\ initialized = FALSE
    /\ initCalls = 0
    /\ modelLoads = 0
    /\ loadedAt = 0
    /\ invocations = 0
    /\ tpc = [t \in Threads |-> "idle"]
    /\ req = [t \in Threads |-> NoData]
    /\ shape = [t \in Threads |-> <<>>]
    /\ prediction = [t \in Threads |-> <<>>]
    /\ hcalls = [t \in Threads |-> <<>>]
    /\ outcome = [t \in Threads |-> NoOutcome]

NextCoerce == ReadHyperparameters

SpecCoerce == InitCoerce /\ [][NextCoerce]_vars

\* ------------------------------------------------------------------ claims
Called(r) == \E i \in 1..Len(calls) : calls[i] = r
FirstArgIs(a) == Len(argv) >= 1 /\ argv[1] = a

\* C1: called with train the dispatcher starts training.start() and never the
\* model server; called with serve it starts the model server and never
\* training.start(); with any other first argument, or none, it ends with the
\* usage error and has started neither.
C1_DispatchOnlyChosenPath ==
    /\ FirstArgIs("train") =>
          /\ ~Called("start_model_server")
          /\ pc # "serving"
          /\ pc # "main" => calls[1] = "training.start"
    /\ FirstArgIs("serve") =>
          /\ ~Called("training.start")
          /\ pc \in {"main", "serving"}
          /\ pc = "serving" => calls = <<"start_model_server">>
    /\ ~FirstArgIs("train") /\ ~FirstArgIs("serve") =>
          /\ calls = <<>>
          /\ pc \in {"main", "exited"}
          /\ pc = "exited" =>
                /\ exitStatus = 1
                /\ stderr = <<[by |-> "interpreter", msg |-> "Invalid argument"]>>

C1_Witness ==
    /\ FirstArgIs("predict")
    /\ pc = "exited"
    /\ stderr # <<>>

\* C2: whenever a step of the try body of start() raised, the process ends
\* with the failure report in output/failure, the same text on the error
\* stream, and exit status 255.
C2_FailureReported ==
    (pc = "exited" /\ exc # "none") =>
        /\ failureFile = <<Report(exc)>>
        /\ stderr = <<Report(exc)>>
        /\ exitStatus = 255

\* C3: once a listed directory (train, validation or both) has no file, the
\* next thing start() does is raise the configuration error: no CSV file is
\* read and set_params, fit, score and the artifact write are never invoked.
C3_EmptyDirectoryFailsBeforeReading ==
    (trainFiles = 0 \/ validationFiles = 0) =>
        /\ csvReads = 0
        /\ calls = <<"training.start">>
        /\ modelDir = "empty"
        /\ pc # "check_files" =>
              /\ exc = "ValueError: There are no files"
              /\ pc \in {"except", "exited"}

C3_Witness ==
    /\ trainFiles > 0
    /\ validationFiles = 0
    /\ exc = "ValueError: There are no files"
    /\ pc = "exited"

\* The text without the one newline that may end it.
Stem(t) ==
    IF Len(t) > 0 /\ t[Len(t)] = "\n" THEN SubSeq(t, 1, Len(t) - 1) ELSE t

WholeNumberText(t) ==
    LET b == Stem(t) IN Len(b) > 0 /\ \A i \in 1..Len(b) : b[i] \in Digits

PointAt(t, p) ==
    LET b == Stem(t)
    IN  /\ p \in 2..(Len(b) - 1)
        /\ b[p] = "."
        /\ \A i \in 1..Len(b) : i # p => b[i] \in Digits

DecimalText(t) == \E p \in 1..Len(t) : PointAt(t, p)

RECURSIVE Pow10(_)
Pow10(n) == IF n = 0 THEN 1 ELSE 10 * Pow10(n - 1)

\* The number a digit string denotes: each digit times its place value.
RECURSIVE PlaceValue(_)
PlaceValue(d) ==
    IF d = <<>> THEN 0
    ELSE DigitVal(d[Len(d)]) + 10 * PlaceValue(SubSeq(d, 1, Len(d) - 1))

\* C4: after the coercion loop every key of the file is a key of the
\* hyperparameters and no other is; a whole-number text became the integer
\* it denotes, a digits-point-digits text the float it denotes, and every
\* other text (signed, exponent form, point first or last, empty) is kept.
C4_CoercionByPattern ==
    pc = "listdir" =>
        /\ DOMAIN hyperparameters = DOMAIN hpFile
        /\ \A k \in DOMAIN hpFile :
              LET t == hpFile[k].text
                  v == hyperparameters[k]
              IN  IF WholeNumberText(t)
                  THEN v.kind = "int" /\ v.num = PlaceValue(Stem(t))
                  ELSE IF DecimalText(t)
                  THEN LET p == CHOOSE q \in 1..Len(t) : PointAt(t, q)
                           b == Stem(t)
                           digits == SubSeq(b, 1, p - 1) \o SubSeq(b, p + 1, Len(b))
                           places == Len(b) - p
                       IN  /\ v.kind = "float"
                           /\ v.exp \in 0..places
                           /\ v.num * Pow10(places - v.exp) = PlaceValue(digits)
                  ELSE v = TextValue(t)

C4_Witness ==
    /\ pc = "listdir"
    /\ hpFile["n_estimators"].text = <<"1", ".", "1">>
    /\ hyperparameters["n_estimators"] = [kind |-> "float", num |-> 11, exp |-> 1]
    /\ "max_depth" \in DOMAIN hyperparameters
    /\ hyperparameters["max_depth"] = [kind |-> "int", num |-> 10, exp |-> 0]

IsRequest(t) == ~req[t].isNone
HCalled(t, r) == \E i \in 1..Len(hcalls[t]) : hcalls[t][i] = r

\* C5: a request whose content type is not text/csv never reaches the
\* decoder, the model's predict or the encoder, and once the handler is
\* initialized it ends with the invalid content-type error.
C5_ContentTypeRejectedBeforeModel ==
    \A t \in Threads :
        (IsRequest(t) /\ req[t].contentType # "text/csv") =>
            /\ hcalls[t] = <<>>
            /\ tpc[t] \notin {"predict_fn", "output_fn"}
            /\ outcome[t].kind \in {"none", "error"}
            /\ (tpc[t] = "done" /\ initialized) =>
                  outcome[t] = Error("Invalid content-type")

C5_Witness ==
    \E t \in Threads :
        /\ tpc[t] = "done"
        /\ IsRequest(t)
        /\ req[t].contentType = "application/json"
        /\ outcome[t] = Error("Invalid content-type")

\* The payload is one feature row of the width the model was fitted on.
FeatureRow(p) == ~p.ragged /\ p.rows = 1 /\ p.cols = NumFeatures

\* C6: a text/csv request whose accept type is not text/csv never gets an
\* encoded response; the invalid accept error is raised only after decode and
\* predict ran and a prediction exists; and it is raised whenever a prediction
\* was computed, as it is for every feature row.
C6_AcceptRejectedAfterPrediction ==
    \A t \in Threads :
        (IsRequest(t) /\ req[t].contentType = "text/csv"
                      /\ req[t].accept # "text/csv") =>
            /\ ~HCalled(t, "encode")
            /\ outcome[t].kind # "response"
            /\ outcome[t] = Error("Invalid accept") =>
                  hcalls[t] = <<"decode", "predict">> /\ Len(prediction[t]) = 1
            /\ (tpc[t] = "done" /\ Len(prediction[t]) > 0) =>
                  outcome[t] = Error("Invalid accept")
            /\ (tpc[t] = "done" /\ initialized /\ FeatureRow(req[t].payload)) =>
                  outcome[t] = Error("Invalid accept")

C6_Witness ==
    \E t \in Threads :
        /\ tpc[t] = "done"
        /\ req[t].contentType = "text/csv"
        /\ req[t].accept = "application/json"
        /\ hcalls[t] = <<"decode", "predict">>
        /\ outcome[t] = Error("Invalid accept")

\* The job's inputs are well formed: the hyperparameter file is string
\* valued, no environment-dependent step raises, and no listed directory is
\* empty.
WellFormedInputs ==
    /\ FirstArgIs("train")
    /\ IsStringValued(hpFile)
    /\ fault = "none"
    /\ trainFiles # 0
    /\ validationFiles # 0

\* C7: with well-formed inputs start() never enters its except clause, and the
\* process ends with status 0 after fit, then score, then one artifact write
\* as the last call, with no failure report and nothing on the error stream.
C7_TrainingSucceeds ==
    WellFormedInputs =>
        /\ pc # "except"
        /\ exc = "none"
        /\ failureFile = <<>>
        /\ pc = "exited" =>
              /\ exitStatus = 0
              /\ calls = <<"training.start", "read_csv", "set_params", "fit",
                           "score", "dump">>
              /\ csvReads = trainFiles + validationFiles
              /\ modelDir = "model"
              /\ stderr = <<>>
        /\ modelDir # "empty" => calls[Len(calls)] = "dump"

C7_Witness ==
    /\ WellFormedInputs
    /\ trainFiles > 0
    /\ validationFiles > 0
    /\ DOMAIN hpFile = HpKeys
    /\ pc = "exited"
    /\ modelDir = "model"

Processing(t) == tpc[t] \in {"input_fn", "predict_fn", "output_fn"}

\* C8: with one invocation at a time, no request is processed before the
\* handler is initialized; the model is loaded at most once, by the first
\* invocation; a second invocation finds a loadable model initialized; and
\* once initialized the handler stays initialized and no later step calls
\* initialize or loads the model again.
C8_InitializedOnceOnFirstInvocation ==
    /\ [](/\ initialized \in BOOLEAN
          /\ \A t \in Threads : Processing(t) => initialized
          /\ modelLoads <= 1
          /\ initialized => modelLoads = 1 /\ loadedAt = 1
          /\ (artifactPresent /\ invocations >= 2) => initialized)
    /\ [][initialized =>
            /\ initialized'
            /\ modelLoads' = modelLoads
            /\ initCalls' = initCalls]_vars

C8_Witness ==
    /\ initialized
    /\ invocations >= 2
    /\ initCalls = 1
    /\ \E t \in Threads : tpc[t] = "done" /\ outcome[t].kind = "response"

\* What handle() gives for d when it runs alone on an initialized handler.
AloneOutcomeKind(d) ==
    IF d.isNone THEN "returned_none"
    ELSE IF d.contentType # "text/csv" THEN "Invalid content-type"
    ELSE IF d.payload.ragged THEN "ValueError: decode"
    ELSE IF d.payload.rows * d.payload.cols # NumFeatures THEN "ValueError: predict"
    ELSE IF d.accept # "text/csv" THEN "Invalid accept"
    ELSE "response"

OutcomeKind(o) == IF o.kind = "error" THEN o.err ELSE o.kind

\* The outcome half of C9: every finished invocation of a process whose
\* artifact is loadable ended as it would have ended alone.
C9_OutcomesAsAlone ==
    \A t \in Threads :
        (artifactPresent /\ tpc[t] = "done") =>
            OutcomeKind(outcome[t]) = AloneOutcomeKind(req[t])

\* C9: under any interleaving of handle() invocations the model is loaded at
\* most once and every invocation ends as it would have ended alone.
C9_ConcurrentHandleSafe ==
    /\ modelLoads <= 1
    /\ C9_OutcomesAsAlone

\* C10: a text/csv request with accept text/csv that carries one feature row
\* runs decode, predict and encode once each in that order, raises no error
\* and returns a response with exactly one prediction, made from an array of
\* exactly one sample.
C10_RoundTripSingleRow ==
    \A t \in Threads :
        (/\ IsRequest(t)
         /\ req[t].contentType = "text/csv"
         /\ req[t].accept = "text/csv"
         /\ FeatureRow(req[t].payload)) =>
            /\ outcome[t].kind \in {"none", "response"} \/ ~initialized
            /\ tpc[t] \in {"predict_fn", "output_fn"} => shape[t] = <<1, NumFeatures>>
            /\ (tpc[t] = "done" /\ initialized) =>
                  /\ hcalls[t] = <<"decode", "predict", "encode">>
                  /\ outcome[t].kind = "response"
                  /\ Len(outcome[t].body) = 1
                  /\ outcome[t].body = <<<<prediction[t][1]>>>>
                  /\ Len(prediction[t]) = 1

C10_Witness ==
    \E t \in Threads :
        /\ tpc[t] = "done"
        /\ req[t].contentType = "text/csv"
        /\ req[t].accept = "text/csv"
        /\ FeatureRow(req[t].payload)
        /\ outcome[t].kind = "response"
        /\ Len(outcome[t].body) = 1

\* Position of the first call of r in calls (0 if r was never called).
CallIndex(r) ==
    IF Called(r) THEN CHOOSE i \in 1..Len(calls) : calls[i] = r ELSE 0

\* C11: the artifact write is invoked only after fit and score were both
\* invoked and returned; so in a run where an earlier step raised, dump is
\* never called and the model directory keeps its content. No step other
\* than the dump step changes the model directory.
C11_NoArtifactBeforeScoreSucceeded ==
    /\ [](/\ (pc = "dump" \/ Called("dump")) =>
                /\ 0 < CallIndex("fit")
                /\ CallIndex("fit") < CallIndex("score")
                /\ Called("dump") => CallIndex("score") < CallIndex("dump")
                /\ fault \notin FaultSteps \ {"dump"}
                /\ IsStringValued(hpFile)
                /\ trainFiles > 0 /\ validationFiles > 0
          /\ (exc # "none" /\ ~Called("dump")) => modelDir = "empty"
          /\ modelDir # "empty" => Called("dump"))
    /\ [][modelDir' # modelDir => (pc = "dump" /\ calls' = Append(calls, "dump"))]_vars

C11_Witness ==
    /\ exc = "ValueError: score"
    /\ pc = "exited"
    /\ calls = <<"training.start", "read_csv", "set_params", "fit", "score">>
    /\ modelDir = "empty"

ReturnedNormally(t) ==
    tpc[t] = "done" /\ outcome[t].kind \in {"returned_none", "response"}

\* C12: an invocation whose data is None never decodes, predicts or encodes
\* and ends only by returning None or by the model load raising; when it
\* started on an uninitialized handler it called initialize first; and any
\* invocation that returned normally leaves the handler initialized, the
\* model loaded.
C12_NoneDataStillInitializes ==
    \A t \in Threads :
        /\ (tpc[t] # "idle" /\ req[t].isNone) =>
              /\ hcalls[t] = <<>>
              /\ ~Processing(t)
              /\ shape[t] = <<>> /\ prediction[t] = <<>>
              /\ tpc[t] = "done" =>
                    \/ outcome[t] = ReturnedNone
                    \/ outcome[t] = Error("FileNotFoundError") /\ ~initialized
        /\ ReturnedNormally(t) =>
              /\ initialized
              /\ initCalls >= 1
              /\ modelLoads >= 1

C12_Witness ==
    \E t \in Threads :
        /\ tpc[t] = "done"
        /\ req[t].isNone
        /\ outcome[t] = ReturnedNone
        /\ invocations = 1
        /\ initialized
        /\ initCalls = 1

====
